---------------------------- MODULE Spec2Model ----------------------------
(***************************************************************************)
(* A model of the chidb B-tree file layer (src/src/libchidb/btree.c).      *)
(*                                                                         *)
(* The database file is modelled byte for byte: a file is a sequence of    *)
(* pages, a page a function from byte offsets to bytes.  Every routine of  *)
(* btree.c is an operator that takes the "world" (file, pager fields, the  *)
(* count of page buffers handed out and not yet released) and returns the  *)
(* status together with the new world, statement by statement as the C     *)
(* code runs.  One action of the state machine is one call of the public   *)
(* API: open, close, find, insertInTable, getCell.                         *)
(*                                                                         *)
(* The pager (pager.c), the byte-order and varint helpers (util.c) and the *)
(* headers are not part of the sources at hand; they are modelled from     *)
(* their contract and marked so in the map of definitions.                 *)
(*                                                                         *)
(* Line 520 of btree.c reads "eturn CHIDB_ECELLNO;": it is modelled as the *)
(* return statement it stands for.                                         *)
(***************************************************************************)
EXTENDS Integers, Naturals, Sequences, FiniteSets, TLC

(***************************************************************************)
(* Bounds of the model.                                                    *)
(***************************************************************************)
\* insertInTable is offered while the file has grown by fewer than this many
\* pages since it was opened
MaxGrowth == 2
\* keys offered to insertInTable and find are 1..MaxKey
MaxKey == 5
\* calls are offered while fewer than this many page buffers are leaked
MaxOutstanding == 1
\* insertCell is offered on a node in memory with fewer than this many cells
MaxCells == 3

\* the node interface appends a cell to a node that holds fewer cells than this
MaxNodeCells == 1

(***************************************************************************)
(* Program constants.                                                      *)
(***************************************************************************)
DEFAULT_PAGE_SIZE == 1024
PGTYPE_TABLE_INTERNAL == 5
PGTYPE_TABLE_LEAF == 13
PGTYPE_INDEX_INTERNAL == 2
PGTYPE_INDEX_LEAF == 10
TABLELEAFCELL_SIZE_WITHOUTDATA == 8
TABLEINTCELL_SIZE == 8
INDEXINTCELL_SIZE == 16
INDEXLEAFCELL_SIZE == 12
\* the page cache size initEmptyNode writes and open compares with
PAGE_CACHE_SIZE == 20000
\* length of the file header at the start of page 1
FILE_HEADER_SIZE == 100

CHIDB_OK == "CHIDB_OK"
CHIDB_ECORRUPTHEADER == "CHIDB_ECORRUPTHEADER"
CHIDB_EPAGENO == "CHIDB_EPAGENO"
CHIDB_ECELLNO == "CHIDB_ECELLNO"
CHIDB_ENOTFOUND == "CHIDB_ENOTFOUND"
CHIDB_EDUPLICATE == "CHIDB_EDUPLICATE"
CHIDB_ENOMEM == "CHIDB_ENOMEM"
CHIDB_EIO == "CHIDB_EIO"
\* find did not return within a descent of more levels than the file has pages
DIVERGES == "DIVERGES"

\* what an int function that ends without a return statement may hand back
\* (CHIDB_OK, a documented error, a value that is no status at all)
IndeterminateInt == {CHIDB_OK, CHIDB_EIO, "GARBAGE"}

(***************************************************************************)
(* Bytes and byte buffers.  A buffer is the sequence of its bytes: the     *)
(* byte at offset o is element o + 1.                                      *)
(***************************************************************************)
RECURSIVE ZeroBuf(_)
\* n zero bytes
ZeroBuf(n) ==
  IF n = 0 THEN << >>
  ELSE IF n % 2 = 0 THEN LET h == ZeroBuf(n \div 2) IN h \o h
  ELSE <<0>> \o ZeroBuf(n - 1)

\* "SQLite format 3" followed by its terminating NUL: 16 bytes
MagicBytes == <<83, 81, 76, 105, 116, 101, 32, 102, 111, 114, 109, 97, 116, 32, 51, 0>>

\* the constant bytes of cells in index nodes
hexg == <<11, 3, 4, 4>>

\* the byte at offset o of a buffer
byte(d, o) == d[o + 1]

get2byte(d, o) == d[o + 1] * 256 + d[o + 2]

put2byte(d, o, v) == [d EXCEPT ![o + 1] = (v \div 256) % 256, ![o + 2] = v % 256]

get4byte(d, o) == ((d[o + 1] * 256 + d[o + 2]) * 256 + d[o + 3]) * 256 + d[o + 4]

put4byte(d, o, v) ==
  [d EXCEPT ![o + 1] = (v \div 16777216) % 256, ![o + 2] = (v \div 65536) % 256,
            ![o + 3] = (v \div 256) % 256, ![o + 4] = v % 256]

\* four bytes, seven bits of the value in each, the high bit set on the first three
getVarint32(d, o) ==
  (((d[o + 1] % 128) * 128 + (d[o + 2] % 128)) * 128 + (d[o + 3] % 128)) * 128
  + (d[o + 4] % 128)

putVarint32(d, o, v) ==
  [d EXCEPT ![o + 1] = 128 + ((v \div 2097152) % 128),
            ![o + 2] = 128 + ((v \div 16384) % 128),
            ![o + 3] = 128 + ((v \div 128) % 128), ![o + 4] = v % 128]

\* the n bytes at a pointer (a buffer and an offset into it), as a sequence
BytesAt(src, n) == SubSeq(src.buf, src.off + 1, src.off + n)

\* memcpy(d + o, s, Len(s))
memcpySeq(d, o, s) == SubSeq(d, 1, o) \o s \o SubSeq(d, o + Len(s) + 1, Len(d))

\* memcpy(d + o, src.buf + src.off, n)
memcpy(d, o, src, n) == memcpySeq(d, o, BytesAt(src, n))

\* memcmp(d + o, s, Len(s)) == 0
memeq(d, o, s) == \A j \in 1..Len(s) : d[o + j] = s[j]

(***************************************************************************)
(* The pager.  w is the world: file (the pages on disk), n_pages and       *)
(* page_size (the pager's fields), outstanding (MemPages handed out by     *)
(* readPage and not yet given to releaseMemPage).                          *)
(***************************************************************************)
\* the number of whole pages the file holds
chidb_Pager_setPageSize(w, pagesize) ==
  [w EXCEPT !.page_size = pagesize, !.n_pages = Len(w.file)]

chidb_Pager_allocatePage(w) ==
  [st |-> CHIDB_OK, npage |-> w.n_pages + 1, w |-> [w EXCEPT !.n_pages = @ + 1]]

\* a page past the end of the file reads as zeros
chidb_Pager_readPage(w, npage) ==
  IF npage < 1 \/ npage > w.n_pages
  THEN [st |-> CHIDB_EPAGENO, w |-> w, page |-> [npage |-> npage, data |-> << >>]]
  ELSE [st |-> CHIDB_OK, w |-> [w EXCEPT !.outstanding = @ + 1],
        page |-> [npage |-> npage,
                  data |-> IF npage <= Len(w.file) THEN w.file[npage]
                           ELSE ZeroBuf(w.page_size)]]

RECURSIVE PagesUpTo(_, _, _)
\* the file grown with zero pages to hold page npage
PagesUpTo(f, npage, page_size) ==
  IF Len(f) >= npage THEN f ELSE PagesUpTo(Append(f, ZeroBuf(page_size)), npage, page_size)

chidb_Pager_writePage(w, page) ==
  [w EXCEPT !.file = [PagesUpTo(@, page.npage, w.page_size) EXCEPT ![page.npage] = page.data]]

chidb_Pager_releaseMemPage(w, page) == [w EXCEPT !.outstanding = @ - 1]

\* the first 100 bytes of the file
chidb_Pager_readHeader(w) == w.file[1]

(***************************************************************************)
(* Node codec.                                                             *)
(***************************************************************************)
IsInternalType(type) == type = 5 \/ type = 2

\* the node belongs to an index B-tree
IsIndexType(type) == type = PGTYPE_INDEX_INTERNAL \/ type = PGTYPE_INDEX_LEAF

\* where the node header starts in the page
HeaderStart(npage) == IF npage = 1 THEN 100 ELSE 0

\* the node handle filled in from the page that readPage returned
nodeOfPage(r, npage) ==
  IF r.st # CHIDB_OK THEN [st |-> r.st, w |-> r.w, btn |-> << >>]
  ELSE
    LET data == HeaderStart(npage)
        type == byte(r.page.data, data)
    IN [st |-> CHIDB_OK, w |-> r.w,
        btn |-> [page |-> r.page,
                 type |-> type,
                 free_offset |-> get2byte(r.page.data, data + 1),
                 n_cells |-> get2byte(r.page.data, data + 3),
                 cells_offset |-> get2byte(r.page.data, data + 5),
                 right_page |-> IF IsInternalType(type) THEN get4byte(r.page.data, data + 8)
                                ELSE 0,
                 celloffset_array |-> data + (IF IsInternalType(type) THEN 12 ELSE 8)]]

chidb_Btree_getNodeByPage(w, npage) == nodeOfPage(chidb_Pager_readPage(w, npage), npage)

chidb_Btree_freeMemNode(w, btn) == chidb_Pager_releaseMemPage(w, btn.page)

\* the free offset with the file header of page 1 forgotten
EmptyFreeOffsetNoFileHeader(npage, type) ==
  IF IsInternalType(type) THEN 12 ELSE 8

\* the free offset of an empty node put at the end of a page
EmptyFreeOffsetAtPageEnd(npage, type) == DEFAULT_PAGE_SIZE

\* the free offset of an empty node
EmptyFreeOffset(npage, type) ==
  (IF IsInternalType(type) THEN 12 ELSE 8) + (IF npage = 1 THEN 100 ELSE 0)

\* the file header, written at the start of page 1
WriteFileHeader(d, page_size) ==
  LET d1 == memcpySeq(d, 0, MagicBytes)
      d2 == put2byte(d1, 16, page_size)
      d3 == memcpySeq(d2, 18, <<1, 1, 0, 64, 32, 32>>)
      d4 == put4byte(d3, 24, 0)
      d5 == put4byte(put4byte(d4, 32, 0), 36, 0)
      d6 == put4byte(d5, 40, 0)
      d7 == put4byte(d6, 44, 1)
      d8 == put4byte(d7, 48, PAGE_CACHE_SIZE)
      d9 == put4byte(d8, 52, 0)
      d10 == put4byte(d9, 56, 1)
      d11 == put4byte(d10, 60, 0)
  IN put4byte(d11, 64, 0)

\* the node header of an empty node with the right page left as it is
WriteEmptyHeaderNoRightPage(d, data, npage, type, page_size) ==
  put2byte(put2byte(put2byte([d EXCEPT ![data + 1] = type, ![data + 8] = 0],
                             data + 1, EmptyFreeOffset(npage, type)),
                    data + 3, 0),
           data + 5, page_size)

\* the node header of an empty node, written at offset data
WriteEmptyHeader(d, data, npage, type, page_size) ==
  LET d1 == [d EXCEPT ![data + 1] = type]
      d2 == put2byte(d1, data + 1, EmptyFreeOffset(npage, type))
      d3 == put2byte(d2, data + 3, 0)
      d4 == put2byte(d3, data + 5, page_size)
      d5 == [d4 EXCEPT ![data + 8] = 0]
  IN IF IsInternalType(type) THEN put4byte(d5, data + 8, 0) ELSE d5

\* the page that readPage returned, given the headers, written and released
initPage(r, npage, type) ==
  IF r.st # CHIDB_OK THEN [st |-> r.st, w |-> r.w]
  ELSE
    LET d1 == IF npage = 1 THEN WriteFileHeader(r.page.data, r.w.page_size) ELSE r.page.data
        d2 == WriteEmptyHeader(d1, HeaderStart(npage), npage, type, r.w.page_size)
        w1 == chidb_Pager_writePage(r.w, [npage |-> npage, data |-> d2])
    IN [st |-> CHIDB_OK, w |-> chidb_Pager_releaseMemPage(w1, r.page)]

chidb_Btree_initEmptyNode(w, npage, type) ==
  initPage(chidb_Pager_readPage(w, npage), npage, type)

\* newNode hands back the status of initEmptyNode and the page allocated
newNodeResult(r, npage) == [st |-> r.st, w |-> r.w, npage |-> npage]

\* the page that allocatePage returned, initialized
initAllocated(a, type) ==
  newNodeResult(chidb_Btree_initEmptyNode(a.w, a.npage, type), a.npage)

chidb_Btree_newNode(w, type) == initAllocated(chidb_Pager_allocatePage(w), type)

\* the page buffer with the header fields stored at the start of the page,
\* whatever the page
nodeBytesAtPageStart(btn) ==
  LET d4 == put2byte(put2byte(put2byte([btn.page.data EXCEPT ![1] = btn.type],
                                       1, btn.free_offset),
                              3, btn.n_cells),
                     5, btn.cells_offset)
  IN IF IsInternalType(btn.type) THEN put4byte(d4, 8, btn.right_page) ELSE d4

\* the page buffer of the node with the node's header fields stored in it
nodeBytes(btn) ==
  LET data == HeaderStart(btn.page.npage)
      d1 == [btn.page.data EXCEPT ![data + 1] = btn.type]
      d2 == put2byte(d1, data + 1, btn.free_offset)
      d3 == put2byte(d2, data + 3, btn.n_cells)
      d4 == put2byte(d3, data + 5, btn.cells_offset)
  IN IF IsInternalType(btn.type) THEN put4byte(d4, data + 8, btn.right_page) ELSE d4

\* the status is CHIDB_OK whatever writePage returns
chidb_Btree_writeNode(w, btn) ==
  chidb_Pager_writePage(w, [npage |-> btn.page.npage, data |-> nodeBytes(btn)])

(***************************************************************************)
(* Cells.  A BTreeCell is a record; the fields of the variants that are    *)
(* not the cell's own are 0.  data is a pointer: a buffer and an offset.   *)
(***************************************************************************)
NullPtr == [buf |-> << >>, off |-> 0]

BTreeCell(type, key, child_page, data_size, data, keyPk) ==
  [type |-> type, key |-> key, child_page |-> child_page,
   data_size |-> data_size, data |-> data, keyPk |-> keyPk]

\* the cell number test of getCell
getCellBadNo(ncell, n_cells) == ncell < 0 \/ ncell > n_cells

\* offsetReads counts the reads of the cell offset array
chidb_Btree_getCell(btn, ncell) ==
  LET d == btn.page.data
      data == get2byte(d, btn.celloffset_array + ncell * 2)
  IN
  IF getCellBadNo(ncell, btn.n_cells)
  THEN [st |-> CHIDB_ECELLNO, cell |-> << >>, offsetReads |-> 1]
  ELSE
    [st |-> CHIDB_OK, offsetReads |-> 1,
     cell |->
       CASE btn.type = PGTYPE_TABLE_INTERNAL ->
              BTreeCell(PGTYPE_TABLE_INTERNAL, getVarint32(d, data + 4), get4byte(d, data),
                        0, NullPtr, 0)
         [] btn.type = PGTYPE_TABLE_LEAF ->
              BTreeCell(PGTYPE_TABLE_LEAF, getVarint32(d, data + 4), 0, getVarint32(d, data),
                        [buf |-> d, off |-> data + TABLELEAFCELL_SIZE_WITHOUTDATA], 0)
         [] btn.type = PGTYPE_INDEX_INTERNAL ->
              BTreeCell(PGTYPE_INDEX_INTERNAL, get4byte(d, data + 8), get4byte(d, data),
                        0, NullPtr, get4byte(d, data + 12))
         [] btn.type = PGTYPE_INDEX_LEAF ->
              BTreeCell(PGTYPE_INDEX_LEAF, get4byte(d, data + 4), 0,
                        0, NullPtr, get4byte(d, data + 8))]

\* the size of a cell with the payload of a table leaf cell forgotten
CellSizeWithoutData(type, cell) ==
  CASE type = PGTYPE_TABLE_LEAF -> TABLELEAFCELL_SIZE_WITHOUTDATA
    [] type = PGTYPE_TABLE_INTERNAL -> TABLEINTCELL_SIZE
    [] type = PGTYPE_INDEX_INTERNAL -> INDEXINTCELL_SIZE
    [] type = PGTYPE_INDEX_LEAF -> INDEXLEAFCELL_SIZE

\* the size of a cell as insertCell lays it out in a node of the given type
CellSize(type, cell) ==
  CASE type = PGTYPE_TABLE_LEAF -> cell.data_size + TABLELEAFCELL_SIZE_WITHOUTDATA
    [] type = PGTYPE_TABLE_INTERNAL -> TABLEINTCELL_SIZE
    [] type = PGTYPE_INDEX_INTERNAL -> INDEXINTCELL_SIZE
    [] type = PGTYPE_INDEX_LEAF -> INDEXLEAFCELL_SIZE

\* the bytes of the cell with the key written where the cell starts
WriteCellKeyFirst(d, data, type, cell) ==
  CASE type = PGTYPE_TABLE_LEAF ->
         memcpy(putVarint32(putVarint32(d, data, cell.data_size), data, cell.key),
                data + 8, cell.data, cell.data_size)
    [] type = PGTYPE_TABLE_INTERNAL ->
         putVarint32(put4byte(d, data, cell.child_page), data, cell.key)
    [] type = PGTYPE_INDEX_INTERNAL ->
         put4byte(put4byte(memcpySeq(put4byte(d, data, cell.child_page), data + 4, hexg),
                           data, cell.key), data + 12, cell.keyPk)
    [] type = PGTYPE_INDEX_LEAF ->
         put4byte(put4byte(memcpySeq(d, data, hexg), data, cell.key), data + 8, cell.keyPk)

\* the bytes of the cell, written at offset data of the page
WriteCell(d, data, type, cell) ==
  CASE type = PGTYPE_TABLE_LEAF ->
         memcpy(putVarint32(putVarint32(d, data, cell.data_size), data + 4, cell.key),
                data + 8, cell.data, cell.data_size)
    [] type = PGTYPE_TABLE_INTERNAL ->
         putVarint32(put4byte(d, data, cell.child_page), data + 4, cell.key)
    [] type = PGTYPE_INDEX_INTERNAL ->
         put4byte(put4byte(memcpySeq(put4byte(d, data, cell.child_page), data + 4, hexg),
                           data + 8, cell.key), data + 12, cell.keyPk)
    [] type = PGTYPE_INDEX_LEAF ->
         put4byte(put4byte(memcpySeq(d, data, hexg), data + 4, cell.key), data + 8, cell.keyPk)

RECURSIVE moveUp2LowFirst(_, _, _)
\* the bytes at offsets lo .. hi - 1 copied two places up, the lowest first
moveUp2LowFirst(d, lo, hi) ==
  IF hi <= lo THEN d ELSE moveUp2LowFirst([d EXCEPT ![lo + 3] = d[lo + 1]], lo + 1, hi)

RECURSIVE moveUp2(_, _, _)
\* the bytes at offsets lo .. hi - 1 moved to lo + 2 .. hi + 1, the highest first
moveUp2(d, lo, hi) ==
  IF hi <= lo THEN d ELSE moveUp2([d EXCEPT ![hi + 2] = d[hi]], lo, hi - 1)

\* the offset array left as it is
ShiftOffsetsNot(d, array, ncell, n_cells) == d

\* memmove(array + 2*ncell + 2, array + 2*ncell, 2*(n_cells - ncell))
ShiftOffsets(d, array, ncell, n_cells) ==
  moveUp2(d, array + ncell * 2, array + n_cells * 2)

\* line 520, the statement under the cell number test, reads
\* `eturn CHIDB_ECELLNO;`: not a return statement but a call of eturn, a
\* function the sources do not define, so control does not come back from it
insertCellBadNo(btn) == [st |-> DIVERGES, btn |-> btn]

chidb_Btree_insertCell(btn, ncell, cell) ==
  IF ncell < 0 \/ ncell > btn.n_cells
  THEN insertCellBadNo(btn)
  ELSE
    LET cells_offset == btn.cells_offset - CellSize(btn.type, cell)
        d1 == WriteCell(btn.page.data, cells_offset, btn.type, cell)
        d2 == ShiftOffsets(d1, btn.celloffset_array, ncell, btn.n_cells)
        d3 == put2byte(d2, btn.celloffset_array + ncell * 2, cells_offset)
    IN [st |-> CHIDB_OK,
        btn |-> [btn EXCEPT !.page.data = d3, !.cells_offset = cells_offset,
                            !.n_cells = @ + 1, !.free_offset = @ + 2]]

(***************************************************************************)
(* Find.  fuel bounds the depth of the descent: a descent through more     *)
(* levels than the file has pages has met a page twice.                    *)
(***************************************************************************)
\* the test for the entry looked up
\* the match test with the comparison of the stop test
findMatchAtStop(cellkey, key, type) == key <= cellkey /\ type = PGTYPE_TABLE_LEAF

findMatch(cellkey, key, type) == cellkey = key /\ type = PGTYPE_TABLE_LEAF

\* the test that ends the walk over the cells
findStop(key, cellkey) == key <= cellkey

RECURSIVE chidb_Btree_findFrom(_, _, _, _)
RECURSIVE findCells(_, _, _, _, _)

\* the body of the loop over the cells, for the cell g that getCell returned
findCell(w, btn, key, i, fuel, g) ==
  IF g.st # CHIDB_OK
  THEN [st |-> CHIDB_ECELLNO, w |-> w, data |-> << >>, size |-> 0]
  ELSE IF findMatch(g.cell.key, key, btn.type)
  THEN [st |-> CHIDB_OK, w |-> chidb_Btree_freeMemNode(w, btn),
        data |-> BytesAt(g.cell.data, g.cell.data_size % 65536),
        size |-> g.cell.data_size % 65536]
  ELSE IF findStop(key, g.cell.key)
  THEN
    IF btn.type = PGTYPE_TABLE_LEAF
    THEN [st |-> CHIDB_ENOTFOUND, w |-> chidb_Btree_freeMemNode(w, btn),
          data |-> << >>, size |-> 0]
    ELSE chidb_Btree_findFrom(chidb_Btree_freeMemNode(w, btn), g.cell.child_page, key,
                              fuel - 1)
  ELSE findCells(w, btn, key, i + 1, fuel)

\* the loop over the cells from cell i on, and what follows the loop
findCells(w, btn, key, i, fuel) ==
  IF i < btn.n_cells
  THEN findCell(w, btn, key, i, fuel, chidb_Btree_getCell(btn, i))
  ELSE IF btn.type # PGTYPE_TABLE_LEAF
  THEN chidb_Btree_findFrom(chidb_Btree_freeMemNode(w, btn), btn.right_page, key, fuel - 1)
  ELSE [st |-> CHIDB_ENOTFOUND, w |-> w, data |-> << >>, size |-> 0]

\* find, for the node r that getNodeByPage returned
findInNode(r, key, fuel) ==
  IF r.st # CHIDB_OK THEN [st |-> r.st, w |-> r.w, data |-> << >>, size |-> 0]
  ELSE findCells(r.w, r.btn, key, 0, fuel)

chidb_Btree_findFrom(w, nroot, key, fuel) ==
  IF fuel = 0 THEN [st |-> DIVERGES, w |-> w, data |-> << >>, size |-> 0]
  ELSE findInNode(chidb_Btree_getNodeByPage(w, nroot), key, fuel)

\* find on a file given one more page first
findAllocating(w, nroot, key) ==
  chidb_Btree_findFrom(chidb_Pager_allocatePage(w).w, nroot, key, w.n_pages + 1)

chidb_Btree_find(w, nroot, key) == chidb_Btree_findFrom(w, nroot, key, w.n_pages + 1)

(***************************************************************************)
(* Insert.                                                                 *)
(***************************************************************************)
\* the comparison notEnoughSpace returns 1 on: need is the node's free space,
\* have the size of the cell
spaceTest(need, have) == need >= have

notEnoughSpace(btn, btc) ==
  LET need == btn.cells_offset - btn.free_offset
      have == CASE btc.type = PGTYPE_TABLE_LEAF ->
                     TABLELEAFCELL_SIZE_WITHOUTDATA + btc.data_size
                [] btc.type = PGTYPE_TABLE_INTERNAL -> TABLEINTCELL_SIZE
                [] btc.type = PGTYPE_INDEX_LEAF -> INDEXLEAFCELL_SIZE
                [] btc.type = PGTYPE_INDEX_INTERNAL -> INDEXINTCELL_SIZE
                [] OTHER -> 0
  IN IF spaceTest(need, have) THEN 1 ELSE 0

\* the body of insertNonFull is "return CHIDB_OK;"
chidb_Btree_insertNonFull(w, npage, btc) == [sts |-> {CHIDB_OK}, w |-> w]

\* the body of split is "return CHIDB_OK;": npage_child2 is left unset
chidb_Btree_split(w, npage_parent, npage_child, parent_ncell) == [st |-> CHIDB_OK, w |-> w]

\* every cell of the root put at the front of the new child
copyPosFront(i) == 0

\* the position in the new child that the root's cell i is copied to
copyPos(i) == i

RECURSIVE copyCells(_, _, _)

\* the cell that getCell returned, put in the new child; then the next cell
copyCell(rbtn, cbtn, i, g) ==
  IF g.st # CHIDB_OK THEN [st |-> g.st, btn |-> cbtn]
  ELSE copyCells(rbtn, chidb_Btree_insertCell(cbtn, copyPos(i), g.cell), i + 1)

\* the loop that copies the root's cells, from cell i on; p is what insertCell
\* returned for the cell before
copyCells(rbtn, p, i) ==
  IF p.st # CHIDB_OK THEN p
  ELSE IF i < rbtn.n_cells THEN copyCell(rbtn, p.btn, i, chidb_Btree_getCell(rbtn, i))
  ELSE p

\* the root left with the type it had
rootTypeKept(rbtn_type) == rbtn_type

\* the type the root is given again after its cells have moved to the new child
rootTypeAfterSplit(rbtn_type) ==
  IF rbtn_type = PGTYPE_INDEX_LEAF \/ rbtn_type = PGTYPE_INDEX_INTERNAL
  THEN PGTYPE_INDEX_INTERNAL ELSE PGTYPE_TABLE_INTERNAL

\* the new child given the root's page number for its right page
withRightPageOfRootPage(cbtn, rbtn) ==
  IF IsInternalType(rbtn.type) THEN [cbtn EXCEPT !.right_page = rbtn.page.npage] ELSE cbtn

\* the new child with the right page of an internal root
withRightPage(cbtn, rbtn) ==
  IF IsInternalType(rbtn.type) THEN [cbtn EXCEPT !.right_page = rbtn.right_page] ELSE cbtn

\* lines 867-871: split is called; on CHIDB_OK the function ends without a return
\* statement, and sts is the set of values the call may hand back
\* tail names the call whose status insert hands back when it has one
insertSplit(s) ==
  IF s.st # CHIDB_OK THEN [sts |-> {s.st}, w |-> s.w, tail |-> "split"]
  ELSE [sts |-> IndeterminateInt, w |-> s.w, tail |-> "none"]

\* the root made its own right page
rootRightPageSelf(nroot, npage_cbtn) == nroot

\* the right page the root is given: the new child
rootRightPage(nroot, npage_cbtn) == npage_cbtn

\* lines 856-870: the root, loaded again as r, is given its right page, written and freed
insertRootAgain(r, nroot, npage_cbtn) ==
  IF r.st # CHIDB_OK THEN [sts |-> {r.st}, w |-> r.w]
  ELSE
    insertSplit(
      chidb_Btree_split(
        chidb_Btree_freeMemNode(
          chidb_Btree_writeNode(
            r.w, [r.btn EXCEPT !.right_page = rootRightPage(nroot, npage_cbtn)]), r.btn),
        nroot, npage_cbtn, 0))

\* lines 851-854: after initEmptyNode has returned e, the root is loaded again
insertReinit(e, nroot, npage_cbtn) ==
  IF e.st # CHIDB_OK THEN [sts |-> {e.st}, w |-> e.w]
  ELSE insertRootAgain(chidb_Btree_getNodeByPage(e.w, nroot), nroot, npage_cbtn)

\* the first page of the file initialized again, whatever the root
reinitPageFirst(nroot) == 1

\* the page initialized again after the root's cells have been copied: the root's
reinitPage(nroot) == nroot

\* lines 803-849: the new child is written and freed, the root is written and freed,
\* and the root's page is initialized again
insertCopied(w, rbtn, cp, nroot, npage_cbtn) ==
  IF cp.st # CHIDB_OK THEN [sts |-> {cp.st}, w |-> w]
  ELSE
    insertReinit(
      chidb_Btree_initEmptyNode(
        chidb_Btree_freeMemNode(
          chidb_Btree_writeNode(
            chidb_Btree_freeMemNode(
              chidb_Btree_writeNode(w, withRightPage(cp.btn, rbtn)), cp.btn),
            rbtn),
          rbtn),
        reinitPage(nroot), rootTypeAfterSplit(rbtn.type)),
      nroot, npage_cbtn)

\* lines 787-801: the new child, loaded as c, is given the root's cells
insertChild(c, rbtn, nroot, npage_cbtn) ==
  IF c.st # CHIDB_OK THEN [sts |-> {c.st}, w |-> c.w]
  ELSE insertCopied(c.w, rbtn, copyCells(rbtn, [st |-> CHIDB_OK, btn |-> c.btn], 0),
                    nroot, npage_cbtn)

\* lines 783-789: after newNode has returned n
insertNew(n, rbtn, nroot) ==
  IF n.st # CHIDB_OK THEN [sts |-> {n.st}, w |-> n.w]
  ELSE insertChild(chidb_Btree_getNodeByPage(n.w, n.npage), rbtn, nroot, n.npage)

\* lines 775-785: after the root has been loaded as r
\* line 776: return chidb_Btree_insertNonFull(bt, nroot, btc)
insertDelegated(d) == [sts |-> d.sts, w |-> d.w, tail |-> "insertNonFull"]

insertRoot(r, nroot, btc) ==
  IF r.st # CHIDB_OK THEN [sts |-> {r.st}, w |-> r.w]
  ELSE IF notEnoughSpace(r.btn, btc) = 0
  THEN insertDelegated(chidb_Btree_insertNonFull(r.w, nroot, btc))
  ELSE insertNew(chidb_Btree_newNode(r.w, r.btn.type), r.btn, nroot)

chidb_Btree_insert(w, nroot, btc) ==
  insertRoot(chidb_Btree_getNodeByPage(w, nroot), nroot, btc)

\* the payload is the caller's buffer
chidb_Btree_insertInTable(w, nroot, key, data) ==
  chidb_Btree_insert(w, nroot,
    BTreeCell(PGTYPE_TABLE_LEAF, key, 0, Len(data), [buf |-> data, off |-> 0], 0))

\* the index entry is the two keys
chidb_Btree_insertInIndex(w, nroot, keyIdx, keyPk) ==
  chidb_Btree_insert(w, nroot, BTreeCell(PGTYPE_INDEX_LEAF, keyIdx, 0, 0, NullPtr, keyPk))

(***************************************************************************)
(* Open.                                                                   *)
(***************************************************************************)
\* the test open applies to the page cache size of the header
cacheSizeRejected(v) == v = PAGE_CACHE_SIZE

\* the header check of open
headerRejected(phdr) ==
  \/ ~memeq(phdr, 0, MagicBytes)
  \/ ~memeq(phdr, 18, <<1, 1, 0, 64, 32, 32>>)
  \/ ~memeq(phdr, 32, <<0, 0, 0, 0>>)
  \/ ~memeq(phdr, 36, <<0, 0, 0, 0>>)
  \/ ~memeq(phdr, 44, <<0, 0, 0, 1>>)
  \/ ~memeq(phdr, 52, <<0, 0, 0, 0>>)
  \/ ~memeq(phdr, 56, <<0, 0, 0, 1>>)
  \/ ~memeq(phdr, 64, <<0, 0, 0, 0>>)
  \/ cacheSizeRejected(get4byte(phdr, 48))

\* open hands back the status of newNode
openResult(n) == [st |-> n.st, w |-> n.w]

\* w is the world of a pager just opened on the file: no page size, no pages
chidb_Btree_open(w) ==
  IF Len(w.file) = 0
  THEN
    openResult(chidb_Btree_newNode(
                 [chidb_Pager_setPageSize(w, DEFAULT_PAGE_SIZE) EXCEPT !.n_pages = 0],
                 PGTYPE_TABLE_LEAF))
  ELSE IF headerRejected(chidb_Pager_readHeader(w))
  THEN [st |-> CHIDB_ECORRUPTHEADER, w |-> w]
  ELSE [st |-> CHIDB_OK,
        w |-> chidb_Pager_setPageSize(w, get2byte(chidb_Pager_readHeader(w), 16))]

(***************************************************************************)
(* The files the program is started on: no file, and files another writer  *)
(* of the format has left: well-formed table B-trees rooted at page 1,     *)
(* with the header fields set as named.  They are laid out with the node   *)
(* and cell writers above.                                                 *)
(***************************************************************************)
\* the page size of the files found on disk
FoundPageSize == DEFAULT_PAGE_SIZE \div 2

Payloads == {<<222, 173, 190, 239>>, <<7>>}

LeafCell(key, data) ==
  BTreeCell(PGTYPE_TABLE_LEAF, key, 0, Len(data), [buf |-> data, off |-> 0], 0)

InternalCell(key, child_page) ==
  BTreeCell(PGTYPE_TABLE_INTERNAL, key, child_page, 0, NullPtr, 0)

IndexLeafCell(keyIdx, keyPk) ==
  BTreeCell(PGTYPE_INDEX_LEAF, keyIdx, 0, 0, NullPtr, keyPk)

RECURSIVE AppendCells(_, _, _)
AppendCells(btn, cells, i) ==
  IF i > Len(cells) THEN btn
  ELSE AppendCells(chidb_Btree_insertCell(btn, i - 1, cells[i]).btn, cells, i + 1)

\* the node g, loaded from a new page, given the cells and the right page, written
WriteLoaded(g, cells, right_page) ==
  chidb_Btree_freeMemNode(
    chidb_Btree_writeNode(g.w, [AppendCells(g.btn, cells, 1) EXCEPT !.right_page = right_page]),
    g.btn)

LoadNew(n, cells, right_page) ==
  WriteLoaded(chidb_Btree_getNodeByPage(n.w, n.npage), cells, right_page)

\* the world with one more page: a node of the type, the cells and the right page
WithNode(w, type, cells, right_page) == LoadNew(chidb_Btree_newNode(w, type), cells, right_page)

NoFile == << >>

NewWorld == [file |-> NoFile, n_pages |-> 0, page_size |-> FoundPageSize, outstanding |-> 0]

\* page 1: a leaf holding keys 2 and 4
LeafFile ==
  WithNode(NewWorld, PGTYPE_TABLE_LEAF,
           <<LeafCell(2, <<222, 173, 190, 239>>), LeafCell(4, <<7>>)>>, 0).file

\* page 1: the root, keys <= 2 in page 2, keys <= 4 in page 3, the others in page 4;
\* page 2 holds keys 1 and 2, page 3 key 4, page 4 nothing
TreeFile ==
  LET w1 == WithNode(NewWorld, PGTYPE_TABLE_INTERNAL,
                     <<InternalCell(2, 2), InternalCell(4, 3)>>, 4)
      w2 == WithNode(w1, PGTYPE_TABLE_LEAF,
                     <<LeafCell(1, <<7>>), LeafCell(2, <<222, 173, 190, 239>>)>>, 0)
      w3 == WithNode(w2, PGTYPE_TABLE_LEAF, <<LeafCell(4, <<1, 2, 3>>)>>, 0)
  IN WithNode(w3, PGTYPE_TABLE_LEAF, << >>, 0).file

\* page 1: a leaf with 4 free bytes left, holding keys 1 and 3
\* 190 bytes, the first one b
BigPayload(b) == <<b>> \o ZeroBuf(189)

FullFile ==
  WithNode(NewWorld, PGTYPE_TABLE_LEAF,
           <<LeafCell(1, BigPayload(17)), LeafCell(3, BigPayload(34))>>, 0).file

\* page 1: an empty table; page 2: the root of an index, a leaf holding the
\* entries (2, 1) and (4, 2)
IndexFile ==
  WithNode(WithNode(NewWorld, PGTYPE_TABLE_LEAF, << >>, 0), PGTYPE_INDEX_LEAF,
           <<IndexLeafCell(2, 1), IndexLeafCell(4, 2)>>, 0).file

\* the file with the bytes at an offset of the header replaced
Patched(f, o, bytes) == [f EXCEPT ![1] = memcpySeq(@, o, bytes)]

\* a page cache size other than the one initEmptyNode writes
OtherCacheSize == <<0, 0, 0, 0>>

\* one damaged header for each field open checks
DamagedFiles ==
  {Patched(Patched(LeafFile, 48, OtherCacheSize), x[1], x[2]) :
     x \in {<<0, <<90>>>>, <<20, <<9>>>>, <<35, <<1>>>>, <<36, <<1>>>>, <<47, <<2>>>>,
            <<52, <<1>>>>, <<59, <<0>>>>, <<67, <<1>>>>}}

InitialFiles ==
  {NoFile, LeafFile, Patched(LeafFile, 48, OtherCacheSize),
   Patched(TreeFile, 48, OtherCacheSize), Patched(FullFile, 48, OtherCacheSize),
   Patched(IndexFile, 48, OtherCacheSize)}
  \cup DamagedFiles

(***************************************************************************)
(* Reading a table B-tree as a whole: the entries (key and payload) of the *)
(* leaves under a page.  Used to state what the calls are to achieve.      *)
(***************************************************************************)
\* the cells of a node
CellsOf(btn) == {chidb_Btree_getCell(btn, i).cell : i \in 0..(btn.n_cells - 1)}

RECURSIVE EntriesUnder(_, _, _)

EntriesOfNode(w, btn, fuel) ==
  IF btn.type = PGTYPE_TABLE_LEAF
  THEN {<<c.key, BytesAt(c.data, c.data_size)>> : c \in CellsOf(btn)}
  ELSE UNION ({EntriesUnder(w, c.child_page, fuel - 1) : c \in CellsOf(btn)}
              \cup {EntriesUnder(w, btn.right_page, fuel - 1)})

EntriesUnder(w, npage, fuel) ==
  IF fuel = 0 \/ npage < 1 \/ npage > w.n_pages THEN {}
  ELSE EntriesOfNode(w, chidb_Btree_getNodeByPage(w, npage).btn, fuel)

\* the entries of the table rooted at nroot
Entries(w, nroot) == EntriesUnder(w, nroot, w.n_pages + 1)

KeysIn(entries) == {e[1] : e \in entries}

RECURSIVE KeysUnder(_, _, _)

\* the keys of the cells of a node and of the nodes under it
KeysOfNode(w, btn, fuel) ==
  {c.key : c \in CellsOf(btn)}
  \cup (IF btn.type = PGTYPE_TABLE_LEAF THEN {}
        ELSE UNION ({KeysUnder(w, c.child_page, fuel - 1) : c \in CellsOf(btn)}
                    \cup {KeysUnder(w, btn.right_page, fuel - 1)}))

KeysUnder(w, npage, fuel) ==
  IF fuel = 0 \/ npage < 1 \/ npage > w.n_pages THEN {}
  ELSE KeysOfNode(w, chidb_Btree_getNodeByPage(w, npage).btn, fuel)

\* the keys of the subtree rooted at npage
SubtreeKeys(w, npage) == KeysUnder(w, npage, w.n_pages + 1)

\* cell c of an internal node bounds the keys of its child
CellBoundsChild(w, c) == \A k \in SubtreeKeys(w, c.child_page) : k <= c.key

\* the keys under the right page of an internal node exceed its last key
RightPageAbove(w, btn) ==
  btn.n_cells > 0 =>
    \A k \in SubtreeKeys(w, btn.right_page) :
      k > chidb_Btree_getCell(btn, btn.n_cells - 1).cell.key

OrderedNode(w, btn) ==
  btn.type = PGTYPE_TABLE_INTERNAL =>
    /\ \A c \in CellsOf(btn) : CellBoundsChild(w, c)
    /\ RightPageAbove(w, btn)

\* the node of page npage, loaded for reading only
NodeAt(w, npage) == chidb_Btree_getNodeByPage(w, npage).btn

(***************************************************************************)
(* The state machine.                                                      *)
(***************************************************************************)
VARIABLES
  file,         \* the pages of the database file
  opened,       \* whether a BTree handle is open on the file
  n_pages,      \* the pager's page count
  page_size,    \* the pager's page size
  outstanding,  \* page buffers read and not yet released
  op,           \* the last call and its arguments
  st,           \* the status the last call returned
  out,          \* what the last call handed back
  pre,          \* the file before the last call
  hist,         \* what has been done to the file so far
  node          \* the BTreeNode the caller holds in memory, if any

vars == <<file, opened, n_pages, page_size, outstanding, op, st, out, pre, hist, node>>

World == [file |-> file, n_pages |-> n_pages, page_size |-> page_size,
          outstanding |-> outstanding]

\* the world before the last call, for reading the file as it was
PreWorld == [file |-> pre, n_pages |-> Len(pre), page_size |-> page_size, outstanding |-> 0]

Keys == 1..MaxKey

\* the root of the table
Root == 1

\* the root of the index of a file that has one: the page after the table's root
IndexRoot == Root + 1

\* the keys and primary keys of the index entries inserted
IndexKeys == {3, 4}

PrimaryKeys == {1}

NoOut == [data |-> << >>, size |-> 0, offsetReads |-> 0, before |-> 0]

\* created: the file was created by open, on an empty file
\* okKeys:  the keys the table held when it was opened, and the keys of the
\*          insertInTable calls that returned CHIDB_OK since
\* tracked: the table was created empty by the last open, and every insertInTable
\*          call since returned CHIDB_OK and had a key not inserted before;
\*          entries are then the keys and payloads of these calls
\* found:   the pages the file had when the first open returned
\* the caller holds no node
NoNode == [type |-> 0]

NoHist == [created |-> FALSE, found |-> 0, okKeys |-> {}, tracked |-> FALSE, entries |-> << >>]

SetWorld(w) ==
  /\ file' = w.file
  /\ n_pages' = w.n_pages
  /\ page_size' = w.page_size
  /\ outstanding' = w.outstanding

Init ==
  /\ file \in InitialFiles
  /\ opened = FALSE
  /\ n_pages = 0
  /\ page_size = 0
  /\ outstanding = 0
  /\ op = [name |-> "none"]
  /\ st = CHIDB_OK
  /\ out = NoOut
  /\ pre = file
  /\ hist = NoHist
  /\ node = NoNode

\* the state after a call that returned status s and left the world w
Returned(w, s, o, call) ==
  /\ SetWorld(w)
  /\ st' = s
  /\ out' = o
  /\ op' = call
  /\ pre' = file
  /\ node' = node

OpenReturned(r) ==
  /\ Returned(r.w, r.st, NoOut, [name |-> "open"])
  /\ opened' = (r.st = CHIDB_OK)
  /\ hist' = [created |-> hist.created \/ file = NoFile,
              found |-> IF hist.found = 0 THEN r.w.n_pages ELSE hist.found,
              okKeys |-> IF r.st = CHIDB_OK THEN KeysIn(Entries(r.w, Root)) ELSE {},
              tracked |-> r.st = CHIDB_OK /\ file = NoFile,
              entries |-> << >>]

Open ==
  /\ ~opened
  /\ OpenReturned(chidb_Btree_open([file |-> file, n_pages |-> 0, page_size |-> 0,
                                    outstanding |-> 0]))

Close ==
  /\ opened
  /\ opened' = FALSE
  /\ Returned([World EXCEPT !.n_pages = 0, !.page_size = 0, !.outstanding = 0],
              CHIDB_OK, NoOut, [name |-> "close"])
  /\ hist' = [NoHist EXCEPT !.created = hist.created, !.found = hist.found]

FindReturned(r, key) ==
  Returned(r.w, r.st,
           [NoOut EXCEPT !.data = r.data, !.size = r.size, !.before = outstanding],
           [name |-> "find", key |-> key])

Find(key) ==
  /\ opened
  /\ outstanding < MaxOutstanding
  /\ FindReturned(chidb_Btree_find(World, Root, key), key)
  /\ UNCHANGED <<opened, hist>>

\* the history after insertInTable(key, data) has returned s
Inserted(key, data, s) ==
  IF s # CHIDB_OK THEN [hist EXCEPT !.tracked = FALSE, !.entries = << >>]
  ELSE IF hist.tracked /\ key \notin DOMAIN hist.entries
  THEN [hist EXCEPT !.okKeys = @ \cup {key}, !.entries = (key :> data) @@ @]
  ELSE [hist EXCEPT !.okKeys = @ \cup {key}, !.tracked = FALSE, !.entries = << >>]

\* the call whose status insert handed back: none when it returned a status of
\* its own or ended without one
TailOf(r) == IF "tail" \in DOMAIN r THEN r.tail ELSE "none"

InsertReturned(r, key, data) ==
  \E s \in r.sts :
    /\ Returned(r.w, s,
                [data |-> << >>, size |-> 0, offsetReads |-> 0, before |-> outstanding,
                 tail |-> TailOf(r)],
                [name |-> "insertInTable", key |-> key, data |-> data])
    /\ hist' = Inserted(key, data, s)

InsertInTable(key, data) ==
  /\ opened
  /\ outstanding < MaxOutstanding
  /\ n_pages < hist.found + MaxGrowth
  /\ InsertReturned(chidb_Btree_insertInTable(World, Root, key, data), key, data)
  /\ UNCHANGED opened

InsertInIndexReturned(r, keyIdx, keyPk) ==
  \E s \in r.sts :
    Returned(r.w, s,
             [data |-> << >>, size |-> 0, offsetReads |-> 0, before |-> outstanding,
              tail |-> TailOf(r)],
             [name |-> "insertInIndex", key |-> keyIdx, keyPk |-> keyPk])

\* insertInIndex on the root of the file's index
InsertInIndex(keyIdx, keyPk) ==
  /\ opened
  /\ outstanding < MaxOutstanding
  /\ n_pages < hist.found + MaxGrowth
  /\ n_pages >= IndexRoot
  /\ IsIndexType(NodeAt(World, IndexRoot).type)
  /\ InsertInIndexReturned(chidb_Btree_insertInIndex(World, IndexRoot, keyIdx, keyPk),
                           keyIdx, keyPk)
  /\ UNCHANGED <<opened, hist>>

GetCellReturned(r, g, npage, ncell) ==
  Returned(chidb_Btree_freeMemNode(r.w, r.btn), g.st,
           [NoOut EXCEPT !.offsetReads = g.offsetReads, !.before = outstanding],
           [name |-> "getCell", npage |-> npage, ncell |-> ncell, n_cells |-> r.btn.n_cells])

GetCellLoaded(r, npage, ncell) ==
  /\ r.st = CHIDB_OK
  /\ ncell <= r.btn.n_cells + 1
  /\ GetCellReturned(r, chidb_Btree_getCell(r.btn, ncell), npage, ncell)

\* getCell on the node of a page: the node is loaded, asked for the cell, and freed
GetCell(npage, ncell) ==
  /\ opened
  /\ GetCellLoaded(chidb_Btree_getNodeByPage(World, npage), npage, ncell)
  /\ UNCHANGED <<opened, hist>>

\* what split leaves in *npage_child2, which it never assigns: no page, the page
\* of the child, a page beyond the file
IndeterminatePage(w, npage_child) == {0, npage_child, w.n_pages + 1}

\* the page of the child of an internal node at position ncell: the child page of
\* the cell, or the right page after the last cell
ChildAt(btn, ncell) ==
  IF ncell < btn.n_cells THEN chidb_Btree_getCell(btn, ncell).cell.child_page
  ELSE btn.right_page

SplitReturned(r, npage_parent, npage_child, parent_ncell) ==
  \E m \in IndeterminatePage(r.w, npage_child) :
    Returned(r.w, r.st,
             [data |-> << >>, size |-> 0, offsetReads |-> 0, before |-> outstanding,
              npage_child2 |-> m],
             [name |-> "split", npage_parent |-> npage_parent,
              npage_child |-> npage_child, parent_ncell |-> parent_ncell])

SplitChild(btn, npage_parent, parent_ncell, npage_child) ==
  /\ npage_child >= 1
  /\ npage_child <= n_pages
  /\ SplitReturned(chidb_Btree_split(World, npage_parent, npage_child, parent_ncell),
                   npage_parent, npage_child, parent_ncell)

SplitParent(btn, npage_parent, parent_ncell) ==
  /\ IsInternalType(btn.type)
  /\ parent_ncell <= btn.n_cells
  /\ SplitChild(btn, npage_parent, parent_ncell, ChildAt(btn, parent_ncell))

\* split of the child at position parent_ncell of the internal node of a page
Split(npage_parent, parent_ncell) ==
  /\ opened
  /\ outstanding < MaxOutstanding
  /\ SplitParent(NodeAt(World, npage_parent), npage_parent, parent_ncell)
  /\ UNCHANGED <<opened, hist>>

Next ==
  \/ Open
  \/ Close
  \/ \E key \in Keys : Find(key)
  \/ \E key \in Keys, data \in Payloads : InsertInTable(key, data)
  \/ \E keyIdx \in IndexKeys, keyPk \in PrimaryKeys : InsertInIndex(keyIdx, keyPk)
  \/ \E npage \in 1..n_pages, ncell \in 0..3 : GetCell(npage, ncell)
  \/ \E npage_parent \in 1..n_pages, parent_ncell \in 0..3 : Split(npage_parent, parent_ncell)

Spec == Init /\ [][Next]_vars

(***************************************************************************)
(* The cell interface on a node held in memory.  The caller has opened an  *)
(* empty file, made one more node with newNode, and loaded one of the two  *)
(* nodes; it then calls insertCell on the node, with cells of the node's   *)
(* type that are no larger than the node's free space, and writeNode.      *)
(***************************************************************************)
NodeTypes == {PGTYPE_TABLE_LEAF, PGTYPE_TABLE_INTERNAL, PGTYPE_INDEX_LEAF, PGTYPE_INDEX_INTERNAL}

\* a payload of 499 bytes: in an empty leaf of page 2, the free space left by a
\* first cell with it and the cell's offset is exactly a second such cell
LargePayload == <<5>> \o ZeroBuf(DEFAULT_PAGE_SIZE \div 2 - 14)

\* a key of one varint byte with a value of few bytes, and a key of two varint
\* bytes with a value of more
CellInputs == {<<3, <<222, 173, 190, 239>>, 2>>, <<300, LargePayload, 70000>>}

\* the cells offered to insertCell on a node of the given type
CellsOfType(type) ==
  CASE type = PGTYPE_TABLE_LEAF ->
         {BTreeCell(type, c[1], 0, Len(c[2]), [buf |-> c[2], off |-> 0], 0) : c \in CellInputs}
    [] type = PGTYPE_TABLE_INTERNAL ->
         {BTreeCell(type, c[1], c[3], 0, NullPtr, 0) : c \in CellInputs}
    [] type = PGTYPE_INDEX_INTERNAL ->
         {BTreeCell(type, c[1], c[3], 0, NullPtr, c[3] + 1) : c \in CellInputs}
    [] type = PGTYPE_INDEX_LEAF ->
         {BTreeCell(type, c[1], 0, 0, NullPtr, c[3]) : c \in CellInputs}

\* the file after open on an empty file and newNode(type)
CellWorld(type) ==
  chidb_Btree_newNode(chidb_Btree_open([file |-> NoFile, n_pages |-> 0, page_size |-> 0,
                                        outstanding |-> 0]).w, type).w

\* the state after getNodeByPage has returned r
CellLoaded(r, npage) ==
  /\ file = r.w.file
  /\ n_pages = r.w.n_pages
  /\ page_size = r.w.page_size
  /\ outstanding = r.w.outstanding
  /\ node = r.btn
  /\ op = [name |-> "getNodeByPage", npage |-> npage]
  /\ st = r.st
  /\ pre = r.w.file

CellInit ==
  /\ \E type \in NodeTypes, npage \in 1..2 :
       /\ npage = 1 => type = PGTYPE_TABLE_LEAF
       /\ CellLoaded(chidb_Btree_getNodeByPage(CellWorld(type), npage), npage)
  /\ opened = TRUE
  /\ out = NoOut
  /\ hist = [NoHist EXCEPT !.created = TRUE, !.found = 1]

\* the cell is no larger than the free space of the node
Fits(btn, cell) == CellSize(btn.type, cell) <= btn.cells_offset - btn.free_offset

\* the cell and the entry of the offset array for it fit in the free space
HasRoomFor(btn, cell) == CellSize(btn.type, cell) + 2 <= btn.cells_offset - btn.free_offset

InsertCellReturned(r, ncell, cell) ==
  /\ node' = r.btn
  /\ st' = r.st
  /\ op' = [name |-> "insertCell", ncell |-> ncell, cell |-> cell, was |-> node]
  /\ pre' = file
  /\ UNCHANGED <<file, opened, n_pages, page_size, outstanding, out, hist>>

InsertCell(ncell, cell) ==
  /\ node # NoNode
  /\ st # DIVERGES
  /\ node.n_cells < MaxCells
  /\ Fits(node, cell)
  /\ InsertCellReturned(chidb_Btree_insertCell(node, ncell, cell), ncell, cell)

WriteNode ==
  /\ node # NoNode
  /\ st # DIVERGES
  /\ op.name # "writeNode"
  /\ SetWorld(chidb_Btree_writeNode(World, node))
  /\ st' = CHIDB_OK
  /\ op' = [name |-> "writeNode", npage |-> node.page.npage]
  /\ pre' = file
  /\ UNCHANGED <<opened, out, hist, node>>

CellNext ==
  \/ \E ncell \in 0..(MaxCells + 1), cell \in CellsOfType(node.type) :
       ncell <= node.n_cells + 1 /\ InsertCell(ncell, cell)
  \/ WriteNode

CellSpec == CellInit /\ [][CellNext]_vars

(***************************************************************************)
(* The node interface.  The caller has created a file with open and has    *)
(* allocated a second page, which no node has been written to; it          *)
(* initializes pages as empty nodes, loads the node of a page, appends     *)
(* cells to it, sets the right page of an internal node, writes the node   *)
(* and frees it.                                                           *)
(***************************************************************************)
\* the file after open on an empty file and allocatePage
NodeWorld ==
  chidb_Pager_allocatePage(chidb_Btree_open([file |-> NoFile, n_pages |-> 0, page_size |-> 0,
                                             outstanding |-> 0]).w).w

NodeInit ==
  /\ file = NodeWorld.file
  /\ n_pages = NodeWorld.n_pages
  /\ page_size = NodeWorld.page_size
  /\ outstanding = NodeWorld.outstanding
  /\ opened = TRUE
  /\ op = [name |-> "allocatePage"]
  /\ st = CHIDB_OK
  /\ out = NoOut
  /\ pre = file
  /\ hist = [NoHist EXCEPT !.created = TRUE, !.found = 1]
  /\ node = NoNode

\* the cells appended to a node of the given type
NodeCells(type) == {c \in CellsOfType(type) : c.key < 256}

InitEmptyNodeReturned(r, npage, type) ==
  /\ SetWorld(r.w)
  /\ st' = r.st
  /\ op' = [name |-> "initEmptyNode", npage |-> npage, type |-> type]
  /\ pre' = file
  /\ UNCHANGED <<opened, out, hist, node>>

\* offered on the pages that hold no cell
InitEmptyNode(npage, type) ==
  /\ node = NoNode
  /\ NodeAt(World, npage).n_cells = 0
  /\ InitEmptyNodeReturned(chidb_Btree_initEmptyNode(World, npage, type), npage, type)

\* the call before was freeMemNode of a node of the page, written just before
FreedWritten(npage) == op.name = "freeMemNode" /\ op.written /\ op.npage = npage

\* was is the node of the page as it was written and freed just before, if it was
LoadNodeReturned(r, npage) ==
  /\ SetWorld(r.w)
  /\ st' = r.st
  /\ node' = IF r.st = CHIDB_OK THEN r.btn ELSE NoNode
  /\ op' = [name |-> "getNodeByPage", npage |-> npage,
            was |-> IF FreedWritten(npage) THEN op.was ELSE NoNode]
  /\ pre' = file
  /\ UNCHANGED <<opened, out, hist>>

LoadNode(npage) ==
  /\ node = NoNode
  /\ LoadNodeReturned(chidb_Btree_getNodeByPage(World, npage), npage)

\* the caller assigns the right page of the internal node it holds
SetRightPage(npage) ==
  /\ node # NoNode
  /\ IsInternalType(node.type)
  /\ node.right_page # npage
  /\ node' = [node EXCEPT !.right_page = npage]
  /\ op' = [name |-> "setRightPage", npage |-> npage]
  /\ st' = CHIDB_OK
  /\ pre' = file
  /\ UNCHANGED <<file, opened, n_pages, page_size, outstanding, out, hist>>

\* was is the node freed, written whether writeNode was the call before
FreeNode ==
  /\ node # NoNode
  /\ SetWorld(chidb_Btree_freeMemNode(World, node))
  /\ node' = NoNode
  /\ st' = CHIDB_OK
  /\ op' = [name |-> "freeMemNode", npage |-> node.page.npage, was |-> node,
            written |-> op.name = "writeNode"]
  /\ pre' = file
  /\ UNCHANGED <<opened, out, hist>>

AppendCell ==
  /\ node # NoNode
  /\ node.type \in NodeTypes
  /\ node.n_cells < MaxNodeCells
  /\ \E cell \in NodeCells(node.type) : InsertCell(node.n_cells, cell)

NodeNext ==
  \/ \E npage \in 1..n_pages, type \in NodeTypes : InitEmptyNode(npage, type)
  \/ \E npage \in 1..n_pages : LoadNode(npage)
  \/ AppendCell
  \/ SetRightPage(n_pages)
  \/ WriteNode
  \/ FreeNode

NodeSpec == NodeInit /\ [][NodeNext]_vars

(***************************************************************************)
(* Properties.                                                             *)
(***************************************************************************)
\* the result f of a find is CHIDB_OK with payload v
FoundAs(f, v) == f.st = CHIDB_OK /\ f.size = Len(v) /\ f.data = v

\* find on the table as it is now
FindNow(key) == chidb_Btree_find(World, Root, key)

\* the last call was insertInTable
AfterInsert == op.name = "insertInTable"

\* the keys of the table before the last call
KeysBefore == KeysIn(Entries(PreWorld, Root))

\* the payload stored under key among entries
PayloadOf(entries, key) == (CHOOSE e \in entries : e[1] = key)[2]

\* C1: after insertInTable(nroot, k, v) on a table B-tree that did not hold key
\* k, the call has returned CHIDB_OK and find(nroot, k) returns CHIDB_OK with
\* payload v of length |v|.
C1_FindInsertAgreement ==
  (AfterInsert /\ op.key \notin KeysBefore)
    => (st = CHIDB_OK /\ FoundAs(FindNow(op.key), op.data))

\* the case of C1 that fails: insertInTable of a new key into the table open has
\* just created returned CHIDB_OK, and find does not find the key
C1_Lost ==
  /\ AfterInsert
  /\ pre = chidb_Btree_open([file |-> NoFile, n_pages |-> 0, page_size |-> 0,
                             outstanding |-> 0]).w.file
  /\ st = CHIDB_OK
  /\ FindNow(op.key).st = CHIDB_ENOTFOUND

\* C2: after any sequence of successful insertInTable calls with distinct keys
\* into a table B-tree that open created empty, find returns CHIDB_OK with the
\* inserted payload for every inserted key.
C2_NoEntryLost ==
  hist.tracked =>
    \A k \in DOMAIN hist.entries : FoundAs(FindNow(k), hist.entries[k])

\* C3: insertInTable(nroot, k, v') on a table B-tree that already holds key k
\* returns CHIDB_EDUPLICATE and leaves every page of the file as it was, so
\* find still returns the original payload.
C3_NoDuplicates ==
  (AfterInsert /\ op.key \in KeysBefore)
    => /\ st = CHIDB_EDUPLICATE
       /\ file = pre
       /\ FoundAs(FindNow(op.key), PayloadOf(Entries(PreWorld, Root), op.key))

\* what C4 is about: a find of a key never inserted, after an insert has
\* split the root, has ended in an empty leaf
C4_Witness ==
  /\ op.name = "find"
  /\ op.key \notin hist.okKeys
  /\ n_pages > hist.found
  /\ st = CHIDB_ENOTFOUND

\* C4: after any sequence of inserts into a table B-tree, find(nroot, k)
\* returns CHIDB_ENOTFOUND for every key k that was never successfully inserted.
C4_LookupMiss ==
  opened => \A k \in Keys \ hist.okKeys : FindNow(k).st = CHIDB_ENOTFOUND

\* an internal node with two cells or more
HasCells(btn) == btn.type = PGTYPE_TABLE_INTERNAL /\ btn.n_cells >= 2

\* what C5 is about: an insert has moved the cells of an internal root, and the
\* child pages under them, to a new node
C5_Witness ==
  /\ AfterInsert
  /\ n_pages > Len(pre)
  /\ HasCells(NodeAt(PreWorld, Root))
  /\ HasCells(NodeAt(World, n_pages))

\* C5: after any sequence of inserts into a table B-tree, in every internal
\* node the keys under the child of cell i are at most the key of cell i, and
\* the keys under the right page are greater than the key of the last cell.
C5_Ordering ==
  opened => \A npage \in 1..n_pages : OrderedNode(World, NodeAt(World, npage))

\* C6: when find or insert returns, each node loaded during the call has been
\* released, so no page buffer of the call is outstanding.
C6_LoadReleasePairing ==
  (op.name \in {"find", "insertInTable"}) => outstanding = out.before

\* the file header of a new file, by its fields
IsNewFileHeader(p) ==
  /\ SubSeq(p, 1, 16) = MagicBytes
  /\ get2byte(p, 16) = DEFAULT_PAGE_SIZE
  /\ SubSeq(p, 19, 24) = <<1, 1, 0, 64, 32, 32>>
  /\ get4byte(p, 24) = 0
  /\ get4byte(p, 32) = 0
  /\ get4byte(p, 36) = 0
  /\ get4byte(p, 40) = 0
  /\ get4byte(p, 44) = 1
  /\ get4byte(p, 48) = PAGE_CACHE_SIZE
  /\ get4byte(p, 52) = 0
  /\ get4byte(p, 56) = 1
  /\ get4byte(p, 60) = 0
  /\ get4byte(p, 64) = 0

\* the header of an empty table leaf after the file header of page p
IsEmptyLeafHeader(p) ==
  /\ byte(p, FILE_HEADER_SIZE) = PGTYPE_TABLE_LEAF
  /\ get2byte(p, FILE_HEADER_SIZE + 1) = FILE_HEADER_SIZE + 8
  /\ get2byte(p, FILE_HEADER_SIZE + 3) = 0
  /\ get2byte(p, FILE_HEADER_SIZE + 5) = DEFAULT_PAGE_SIZE

\* the last call was open, on an empty file
AfterOpenEmpty == op.name = "open" /\ pre = NoFile

\* what C7 is about: open has returned on an empty file
C7_Witness == AfterOpenEmpty /\ opened /\ Len(file) = 1

\* C7: open on an empty file returns CHIDB_OK and leaves a file of one page of
\* 1024 bytes, holding the file header and, at offset 100, the header of a
\* table leaf with no cells, cells_offset 1024 and free_offset 108.
C7_OpenEmpty ==
  AfterOpenEmpty =>
    /\ st = CHIDB_OK
    /\ n_pages = 1
    /\ page_size = DEFAULT_PAGE_SIZE
    /\ Len(file) = 1
    /\ Len(file[1]) = DEFAULT_PAGE_SIZE
    /\ IsNewFileHeader(file[1])
    /\ IsEmptyLeafHeader(file[1])

\* the mismatches of a file header that C8 lists
HeaderMismatch(p) ==
  \/ SubSeq(p, 1, 16) # MagicBytes
  \/ SubSeq(p, 19, 24) # <<1, 1, 0, 64, 32, 32>>
  \/ get4byte(p, 32) # 0
  \/ get4byte(p, 36) # 0
  \/ get4byte(p, 52) # 0
  \/ get4byte(p, 64) # 0
  \/ get4byte(p, 44) # 1
  \/ get4byte(p, 56) # 1
  \/ get4byte(p, 48) # PAGE_CACHE_SIZE

\* the last call was open, on a file with pages
AfterOpenFound == op.name = "open" /\ pre # NoFile

\* C8: open on a non-empty file returns CHIDB_ECORRUPTHEADER if and only if the
\* header mismatches in one of the listed fields, the page cache size being
\* other than 20000 among them; otherwise it returns CHIDB_OK and the pager's
\* page size is the value at offset 16.
C8_HeaderValidation ==
  AfterOpenFound =>
    IF HeaderMismatch(pre[1]) THEN st = CHIDB_ECORRUPTHEADER
    ELSE st = CHIDB_OK /\ page_size = get2byte(pre[1], 16)

\* C9: a file that open created on an empty file is accepted by a later open,
\* which returns CHIDB_OK with page size 1024, whatever was inserted in between.
C9_CreateReopen ==
  (AfterOpenFound /\ hist.created) => (st = CHIDB_OK /\ page_size = DEFAULT_PAGE_SIZE)

\* C10: getCell returns CHIDB_ECELLNO for every cell number outside
\* 0 <= i < n_cells, n_cells included, and reads no cell offset then; for every
\* cell number inside it returns CHIDB_OK.
C10_GetCellRange ==
  op.name = "getCell" =>
    IF 0 <= op.ncell /\ op.ncell < op.n_cells THEN st = CHIDB_OK
    ELSE st = CHIDB_ECELLNO /\ out.offsetReads = 0

\* the last call was insertCell, and it returned CHIDB_OK
AfterInsertCell == op.name = "insertCell" /\ st = CHIDB_OK

\* cell g is cell c in type, key and the fields of the variant
CellEq(g, c) ==
  /\ g.type = c.type
  /\ g.key = c.key
  /\ g.child_page = c.child_page
  /\ g.keyPk = c.keyPk
  /\ g.data_size = c.data_size
  /\ BytesAt(g.data, g.data_size) = BytesAt(c.data, c.data_size)

\* getCell has returned cell c
ReadsBack(g, c) == g.st = CHIDB_OK /\ CellEq(g.cell, c)

SerializedSize(type, cell) ==
  CASE type = PGTYPE_TABLE_LEAF -> 8 + cell.data_size
    [] type = PGTYPE_TABLE_INTERNAL -> 8
    [] type = PGTYPE_INDEX_INTERNAL -> 16
    [] type = PGTYPE_INDEX_LEAF -> 12

\* what C12 is about: a third cell, with a payload, has been inserted in a
\* table leaf
C12_Witness ==
  /\ AfterInsertCell
  /\ node.type = PGTYPE_TABLE_LEAF
  /\ op.cell.data_size > 0
  /\ op.was.n_cells = 2

\* C12: a successful insertCell lowers cells_offset by the bytes the cell
\* takes, raises free_offset by 2 and n_cells by 1, and leaves type and
\* right_page as they were.
C12_InsertCellFrame ==
  AfterInsertCell =>
    /\ node.cells_offset = op.was.cells_offset - SerializedSize(node.type, op.cell)
    /\ node.free_offset = op.was.free_offset + 2
    /\ node.n_cells = op.was.n_cells + 1
    /\ node.type = op.was.type
    /\ node.right_page = op.was.right_page

\* the last call was split
AfterSplit == op.name = "split"

\* a cell by its values, the payload as bytes
CellValue(c) ==
  [type |-> c.type, key |-> c.key, child_page |-> c.child_page, keyPk |-> c.keyPk,
   data_size |-> c.data_size, data |-> BytesAt(c.data, c.data_size)]

\* the cells of a node in the order of the offset array
CellValues(btn) ==
  [i \in 1..btn.n_cells |-> CellValue(chidb_Btree_getCell(btn, i - 1).cell)]

\* the child as it was before the last call
ChildBefore == NodeAt(PreWorld, op.npage_child)

\* the new sibling holds the cells before the median of cells cs, and the
\* median too when the child is a table leaf
SiblingHolds(cs, mbtn, type) ==
  /\ mbtn.type = type
  /\ CellValues(mbtn)
       = SubSeq(cs, 1, (Len(cs) \div 2) + (IF type = PGTYPE_TABLE_LEAF THEN 1 ELSE 0))

\* the child keeps the cells after the median of cells cs; a table leaf may
\* keep them from the median on
ChildKeeps(cs, cbtn, type) ==
  \/ CellValues(cbtn) = SubSeq(cs, (Len(cs) \div 2) + 2, Len(cs))
  \/ /\ type = PGTYPE_TABLE_LEAF
     /\ CellValues(cbtn) = SubSeq(cs, (Len(cs) \div 2) + 1, Len(cs))

\* C13: split(parent, child, parent_ncell) on a child with n cells returns
\* CHIDB_OK with a new sibling page M of the child's type that holds the child's
\* first n/2 cells (and the median when the child is a table leaf), while the
\* child keeps only the cells after the median (from the median on at most,
\* for a table leaf).
C13_SplitMedian ==
  (AfterSplit /\ ChildBefore.n_cells >= 1) =>
    /\ st = CHIDB_OK
    /\ out.npage_child2 > Len(pre)
    /\ out.npage_child2 <= n_pages
    /\ SiblingHolds(CellValues(ChildBefore), NodeAt(World, out.npage_child2),
                    ChildBefore.type)
    /\ ChildKeeps(CellValues(ChildBefore), NodeAt(World, op.npage_child), ChildBefore.type)

\* the median of the cells cs
MedianOf(cs) == cs[(Len(cs) \div 2) + 1]

\* parent node pn is parent node pb with one cell more, at position i, for page
\* M and the key of the median
NewParentCell(pb, pn, i, M, median) ==
  /\ pn.n_cells = pb.n_cells + 1
  /\ CellValues(pn)[i + 1].child_page = M
  /\ CellValues(pn)[i + 1].key = median.key
  /\ pn.type = PGTYPE_INDEX_INTERNAL => CellValues(pn)[i + 1].keyPk = median.keyPk
  /\ SubSeq(CellValues(pn), 1, i) = SubSeq(CellValues(pb), 1, i)
  /\ SubSeq(CellValues(pn), i + 2, pn.n_cells) = SubSeq(CellValues(pb), i + 1, pb.n_cells)

\* C17: split(parent, child, parent_ncell) inserts into parent, at position
\* parent_ncell, exactly one new cell with child_page M and the key of the
\* median, leaves the right page of parent as it was, and the table leaf keys
\* reachable from parent are the same before and after.
C17_SplitParentCell ==
  (AfterSplit /\ ChildBefore.n_cells >= 1) =>
    /\ NewParentCell(NodeAt(PreWorld, op.npage_parent), NodeAt(World, op.npage_parent),
                     op.parent_ncell, out.npage_child2, MedianOf(CellValues(ChildBefore)))
    /\ NodeAt(World, op.npage_parent).right_page
         = NodeAt(PreWorld, op.npage_parent).right_page
    /\ KeysIn(Entries(World, op.npage_parent)) = KeysIn(Entries(PreWorld, op.npage_parent))

\* the last insert took the root split: the file has a page more
AfterRootSplit == AfterInsert /\ n_pages > Len(pre)

\* the statuses insert is documented to return
InsertStatuses == {CHIDB_OK, CHIDB_EDUPLICATE, CHIDB_ENOMEM, CHIDB_EIO}

\* C14: when insert has to split the root, it afterwards calls insertNonFull
\* and returns that call's status; every path through insert returns a defined
\* status (CHIDB_OK, CHIDB_EDUPLICATE, CHIDB_ENOMEM or CHIDB_EIO).
C14_InsertReturn ==
  /\ AfterRootSplit => out.tail = "insertNonFull"
  /\ AfterInsert => st \in InsertStatuses

\* the free space of the node is at least the bytes a table leaf cell with
\* the payload takes
HasRoomForEntry(btn, data) == btn.cells_offset - btn.free_offset >= 8 + Len(data)

\* C15: insert splits the root if and only if the root lacks room for the
\* cell: with cells_offset - free_offset >= the cell's size in the root, insert
\* delegates to insertNonFull, allocates no page and leaves the root's type as
\* it was; only with less free space does it take the root split.
C15_SplitIffNoRoom ==
  AfterInsert =>
    IF HasRoomForEntry(NodeAt(PreWorld, Root), op.data)
    THEN /\ n_pages = Len(pre)
         /\ NodeAt(World, Root).type = NodeAt(PreWorld, Root).type
         /\ out.tail = "insertNonFull"
    ELSE n_pages > Len(pre)


\* the last call was an insert into the table or into the index
AfterAnyInsert == op.name \in {"insertInTable", "insertInIndex"}

\* the root the last insert was given
InsertRoot == IF op.name = "insertInIndex" THEN IndexRoot ELSE Root

\* the last insert allocated a page: it took the root split
RootWasSplit == AfterAnyInsert /\ n_pages > Len(pre)

\* the root as it was before the last call
OldRoot == NodeAt(PreWorld, InsertRoot)

\* the node of the page allocated last
NewChild == NodeAt(World, n_pages)

\* the pages an internal node refers to
Referenced(btn) ==
  IF IsInternalType(btn.type)
  THEN {c.child_page : c \in CellsOf(btn)} \cup {btn.right_page}
  ELSE {}

RECURSIVE PagesUnder(_, _, _)
\* the pages reached from a page through child pages and right pages
PagesUnder(w, npage, fuel) ==
  IF fuel = 0 \/ npage < 1 \/ npage > w.n_pages THEN {}
  ELSE {npage} \cup UNION {PagesUnder(w, q, fuel - 1) : q \in Referenced(NodeAt(w, npage))}

\* the internal type of the B-tree family a node type belongs to
FamilyInternal(type) ==
  IF IsIndexType(type) THEN PGTYPE_INDEX_INTERNAL ELSE PGTYPE_TABLE_INTERNAL

\* what C16 is about: insertInIndex has split an index root that held cells
C16_Witness ==
  /\ RootWasSplit
  /\ op.name = "insertInIndex"
  /\ OldRoot.type = PGTYPE_INDEX_LEAF
  /\ OldRoot.n_cells >= 2

\* C16: after insert has split the root at page nroot, page nroot is an
\* internal node of the root's family (table-internal for a table root,
\* index-internal for an index root); the one page allocated has the old
\* root's type, the old root's cells in the same order and, when the old root
\* was internal, its right_page; every page the old root referred to is
\* reachable from nroot.
C16_RootSplitShape ==
  RootWasSplit =>
    /\ n_pages = Len(pre) + 1
    /\ NodeAt(World, InsertRoot).type = FamilyInternal(OldRoot.type)
    /\ NewChild.type = OldRoot.type
    /\ CellValues(NewChild) = CellValues(OldRoot)
    /\ IsInternalType(OldRoot.type) => NewChild.right_page = OldRoot.right_page
    /\ n_pages \in PagesUnder(World, InsertRoot, n_pages)
    /\ Referenced(OldRoot) \subseteq PagesUnder(World, InsertRoot, n_pages)


\* entry i of the cell offset array of a node
CellOffset(btn, i) == get2byte(btn.page.data, btn.celloffset_array + i * 2)

\* the free region of the node is not negative, and no cell starts below its end
NoOverflow(btn) ==
  /\ btn.free_offset <= btn.cells_offset
  /\ \A i \in 0..(btn.n_cells - 1) : CellOffset(btn, i) >= btn.free_offset

\* what C18 is about: a table insert and an index insert have each split a
\* root of the file, the second one a root that held cells
C18_Witness ==
  /\ opened
  /\ op.name = "insertInIndex"
  /\ n_pages > hist.found + 1
  /\ NewChild.n_cells >= 2
  /\ hist.okKeys # {}

\* C18: after any sequence of open, insertInTable and insertInIndex calls,
\* every node of the file has free_offset <= cells_offset, and the offset
\* array and the cell area do not overlap: no cell starts below free_offset.
C18_NoOverflow ==
  opened => \A npage \in 1..n_pages : NoOverflow(NodeAt(World, npage))

\* the size of the page header of a node of the type
HeaderSize(type) == IF IsInternalType(type) THEN 12 ELSE 8

\* the offset array of a node in a page of size size
OffsetsValid(btn, size) ==
  /\ \A i, j \in 0..(btn.n_cells - 1) : i # j => CellOffset(btn, i) # CellOffset(btn, j)
  /\ \A i \in 0..(btn.n_cells - 1) :
       btn.cells_offset <= CellOffset(btn, i) /\ CellOffset(btn, i) < size
  /\ btn.free_offset = HeaderStart(btn.page.npage) + HeaderSize(btn.type) + 2 * btn.n_cells

\* what C19 is about: insertCell has put a cell in front of two others
C19_Witness ==
  /\ AfterInsertCell
  /\ op.ncell = 0
  /\ node.n_cells >= 3

\* C19: after any sequence of insertCell calls on a node created by
\* initEmptyNode, and in every node of the file, the n_cells entries of the
\* cell offset array are pairwise distinct, each lies in [cells_offset,
\* page_size), and free_offset = header start + header size + 2 * n_cells.
C19_OffsetArray ==
  /\ node # NoNode => OffsetsValid(node, page_size)
  /\ opened => \A npage \in 1..n_pages : OffsetsValid(NodeAt(World, npage), page_size)

\* the keys of the cells of a node in the order of the offset array
KeysAt(btn) == [i \in 1..btn.n_cells |-> chidb_Btree_getCell(btn, i - 1).cell.key]

KeysIncreasing(btn) == \A i \in 1..(btn.n_cells - 1) : KeysAt(btn)[i] < KeysAt(btn)[i + 1]

\* what C20 is about: insertInTable has moved the cells of a leaf root to a new node
C20_Witness ==
  /\ RootWasSplit
  /\ op.name = "insertInTable"
  /\ OldRoot.type = PGTYPE_TABLE_LEAF
  /\ NewChild.n_cells >= 2

\* C20: after any sequence of inserts, in every node of the file the keys at
\* positions 0..n_cells-1 are strictly increasing.
C20_KeyOrder ==
  opened => \A npage \in 1..n_pages : KeysIncreasing(NodeAt(World, npage))


\* the last call was find
AfterFind == op.name = "find"

\* what C21 is about: find has gone down from an internal root to a leaf and
\* handed back a payload
C21_Witness ==
  /\ AfterFind
  /\ st = CHIDB_OK
  /\ out.size > 0
  /\ IsInternalType(NodeAt(World, Root).type)

\* C21: whatever status find returns, the file after it has the pages it had
\* before the call, each with the contents it had, and the page count is the
\* same: find writes no page and allocates none.
C21_FindReadOnly ==
  AfterFind => file = pre /\ n_pages = Len(pre)


\* the roots of the B-trees of the file: the table, and the index when the
\* file has one
Roots ==
  IF n_pages >= IndexRoot /\ IsIndexType(NodeAt(World, IndexRoot).type)
  THEN {Root, IndexRoot} ELSE {Root}

\* no page reached from the root is reached again from one of the pages it
\* refers to
Acyclic(w, nroot) ==
  \A p \in PagesUnder(w, nroot, w.n_pages) :
    \A q \in Referenced(NodeAt(w, p)) : p \notin PagesUnder(w, q, w.n_pages)

\* every internal node reached from the root has a right page, a page of the file
RightPagesSet(w, nroot) ==
  \A p \in PagesUnder(w, nroot, w.n_pages) :
    IsInternalType(NodeAt(w, p).type) =>
      NodeAt(w, p).right_page >= 1 /\ NodeAt(w, p).right_page <= w.n_pages

\* find on the tree of a root returns
FindReturns(w, nroot) == \A key \in Keys : chidb_Btree_find(w, nroot, key).st # DIVERGES

\* what C22 is about: find on a file that open created and two inserts have
\* grown to a root, an internal node under it and a leaf
C22_Witness ==
  /\ AfterFind
  /\ hist.created
  /\ n_pages >= 3
  /\ IsInternalType(NodeAt(World, NodeAt(World, Root).right_page).type)

\* C22: on every file reached by open and inserts, the pages reached from a
\* root through child_page and right_page form an acyclic graph, no internal
\* node of it has right_page 0, and find from the root returns, for every key;
\* no find call has failed to return.
C22_FindTerminates ==
  /\ AfterFind => st # DIVERGES
  /\ opened =>
       \A nroot \in Roots :
         /\ Acyclic(World, nroot)
         /\ RightPagesSet(World, nroot)
         /\ FindReturns(World, nroot)


\* the position after insertCell of the cell that was at position j
ShiftedPos(j) == IF j < op.ncell THEN j ELSE j + 1

\* the cells the node held before the call are where insertCell leaves them,
\* with the contents they had
FormerCellsKept ==
  \A j \in 0..(op.was.n_cells - 1) :
    ReadsBack(chidb_Btree_getCell(node, ShiftedPos(j)), chidb_Btree_getCell(op.was, j).cell)

\* what C23 is about: a cell has been inserted between two cells of a node
C23_Witness ==
  /\ AfterInsertCell
  /\ op.ncell = 1
  /\ op.was.n_cells >= 2
  /\ HasRoomFor(op.was, op.cell)

\* C23: after insertCell(node, i, c) with 0 <= i <= n_cells, getCell returns
\* the former cell j at position j for j < i and at position j + 1 for j >= i,
\* with the contents it had; entry i of the offset array is the place the new
\* cell was written at, and getCell(i) returns c when the node had room for
\* the cell and its entry of the offset array.
C23_InsertCellKeepsOrder ==
  AfterInsertCell =>
    /\ FormerCellsKept
    /\ CellOffset(node, op.ncell) = node.cells_offset
    /\ HasRoomFor(op.was, op.cell) =>
         ReadsBack(chidb_Btree_getCell(node, op.ncell), op.cell)


\* the last call was insertCell with a cell number that is no position of the node
AfterInsertCellBadNo == op.name = "insertCell" /\ op.ncell > op.was.n_cells

\* C24: insertCell(node, i, c) with i < 0 or i > n_cells returns CHIDB_ECELLNO
\* and leaves the node as it was: n_cells, free_offset, cells_offset, the
\* offset array and the cell area.
C24_InsertCellBadNumber ==
  AfterInsertCellBadNo => st = CHIDB_ECELLNO /\ node = op.was


\* the last call was getNodeByPage
AfterLoadNode == op.name = "getNodeByPage"

\* the bytes of a page as the pager hands them out
PageBytes(w, npage) == chidb_Pager_readPage(w, npage).page.data

\* the byte of a page that holds the node type
TypeByte(w, npage) == byte(PageBytes(w, npage), HeaderStart(npage))

\* the handle holds the header fields found at offset data of the page, and
\* right_page 0 for a leaf
HandleReadAt(btn, d, data) ==
  /\ btn.type = byte(d, data)
  /\ btn.free_offset = get2byte(d, data + 1)
  /\ btn.n_cells = get2byte(d, data + 3)
  /\ btn.cells_offset = get2byte(d, data + 5)
  /\ btn.right_page = (IF IsInternalType(btn.type) THEN get4byte(d, data + 8) ELSE 0)

\* getNodeByPage of a page with a node type has handed out a handle read at
\* offset 100 of page 1 and offset 0 of another page
LoadedValidType ==
  /\ st = CHIDB_OK
  /\ node # NoNode
  /\ HandleReadAt(node, PageBytes(World, op.npage), IF op.npage = 1 THEN 100 ELSE 0)

\* C25: getNodeByPage on a page whose type byte is none of 0x05, 0x02, 0x0D,
\* 0x0A fails and hands no node handle to the caller; for a node type it
\* returns a handle whose right_page is 0 for leaves and whose header is read
\* at offset 100 for page 1 and offset 0 for every other page.
C25_LoadNodeType ==
  AfterLoadNode =>
    IF TypeByte(World, op.npage) \in NodeTypes THEN LoadedValidType
    ELSE st # CHIDB_OK /\ node = NoNode


\* the file holds two B-trees: the table, and an index at the page after its root
TwoTrees(w) == w.n_pages >= IndexRoot /\ IsIndexType(NodeAt(w, IndexRoot).type)

\* the root of the tree the last insert was not given
OtherRoot == IF op.name = "insertInIndex" THEN Root ELSE IndexRoot

\* what find hands back
FindResult(w, nroot, key) ==
  [st |-> chidb_Btree_find(w, nroot, key).st,
   size |-> chidb_Btree_find(w, nroot, key).size,
   data |-> chidb_Btree_find(w, nroot, key).data]

\* what C26 is about: insertInTable has split the table's root in a file whose
\* index holds entries
C26_Witness ==
  /\ RootWasSplit
  /\ op.name = "insertInTable"
  /\ TwoTrees(PreWorld)
  /\ NodeAt(World, IndexRoot).n_cells >= 2

\* C26: an insert into one of two B-trees of a file changes no page that was
\* in use and outside the tree it was given, so the pages it allocates are
\* pages not in use before; it changes no page reached from the other root,
\* and find on the other root returns for every key what it returned before.
C26_IndependentTrees ==
  (AfterAnyInsert /\ TwoTrees(PreWorld)) =>
    /\ \A p \in 1..Len(pre) :
         p \notin PagesUnder(PreWorld, InsertRoot, Len(pre)) => file[p] = pre[p]
    /\ \A p \in PagesUnder(PreWorld, OtherRoot, Len(pre)) : file[p] = pre[p]
    /\ PagesUnder(World, OtherRoot, n_pages) = PagesUnder(PreWorld, OtherRoot, Len(pre))
    /\ \A key \in Keys :
         FindResult(World, OtherRoot, key) = FindResult(PreWorld, OtherRoot, key)


\* the last call was initEmptyNode
AfterInitEmptyNode == op.name = "initEmptyNode" /\ st = CHIDB_OK

\* the header of an empty node of the type in page npage
EmptyNodeHeader(btn, npage, type) ==
  /\ btn.type = type
  /\ btn.n_cells = 0
  /\ btn.cells_offset = page_size
  /\ btn.free_offset = (IF IsInternalType(type) THEN 12 ELSE 8) + (IF npage = 1 THEN 100 ELSE 0)
  /\ IsInternalType(type) => btn.right_page = 0

AfterRoundTrip == AfterLoadNode /\ op.was # NoNode

\* the header fields of a node handle
HeaderFields(btn) ==
  [type |-> btn.type, free_offset |-> btn.free_offset, n_cells |-> btn.n_cells,
   cells_offset |-> btn.cells_offset, right_page |-> btn.right_page]

\* what C28 is about: the node of page 1, an internal node given a cell and a
\* right page since it was loaded, has been written, freed and loaded again
C28_Witness ==
  /\ AfterRoundTrip
  /\ op.npage = 1
  /\ IsInternalType(node.type)
  /\ node.right_page # 0
  /\ node.n_cells >= 1

\* C28: writeNode(node) followed by freeMemNode and getNodeByPage of the same
\* page yields a handle with the same type, free_offset, n_cells, cells_offset
\* and right_page and the same cells at every position, for page 1 as well as
\* for other pages.
C28_NodeRoundTrip ==
  AfterRoundTrip =>
    /\ st = CHIDB_OK
    /\ HeaderFields(node) = HeaderFields(op.was)
    /\ CellValues(node) = CellValues(op.was)

============================================================================
